---- MODULE Spec2Model ----
(***************************************************************************)
(* Payment-intent backend: the in-memory store (lib/store.js), the payment *)
(* state machine (lib/payments.js), the job orchestrator (lib/jobs.js) and *)
(* the request layer (server.js: idempotency middleware, error handler,    *)
(* routes).  Node runs every request handler and every timer callback to   *)
(* completion, so one action is one handler or one callback.  The status   *)
(* polling of the frontend hook (usePaymentFlow.js) is modelled beside it. *)
(***************************************************************************)
EXTENDS Integers, Sequences, FiniteSets, TLC

(* ------------------------------ bounds -------------------------------- *)
\* number of intents that createPaymentIntent may allocate
MaxIntents == 1
\* number of orchestrator runs that may be started
MaxRuns == 2
\* number of Refund records that may be stored
MaxRefunds == 2
\* the clock stops advancing after TTL_MS + MaxOver milliseconds
MaxOver == 1
\* number of calls of startPolling in the frontend
MaxPollings == 2
\* number of polls of the frontend that may await a response at a time
MaxInFlight == 2

(* --------------------------- program constants ------------------------ *)
REQUIRES_CONFIRMATION == "requires_confirmation"
PROCESSING == "processing"
SUCCEEDED == "succeeded"
FAILED == "failed"
CANCELED == "canceled"
PAYMENT_STATUSES == {REQUIRES_CONFIRMATION, PROCESSING, SUCCEEDED, FAILED, CANCELED}

VALID_PAYMENT_METHODS ==
    {"pm_fake_visa", "pm_fake_mastercard", "pm_fake_amex", "pm_fake_discover"}
VALID_CURRENCIES == {"USD", "EUR", "GBP", "CAD", "AUD", "JPY"}
CAPTURE_METHODS == {"automatic", "manual"}

JOB_TYPES ==
    <<"anti_fraud", "authorization", "risk_assessment", "compliance_check", "capture">>
NumJobTypes == Len(JOB_TYPES)
Stages == 1..NumJobTypes

PENDING == "pending"
COMPLETED == "completed"
JOB_STATUSES == {PENDING, PROCESSING, COMPLETED, FAILED}
TerminalJobStatuses == {COMPLETED, FAILED}

\* 24 hours in milliseconds: the lifetime of an idempotency record
TTL_MS == 24 * 60 * 60 * 1000
\* processIndividualJob: the start jitter is below 2000 ms, the work lasts
\* between 5000 and 8000 ms; the completion interval fires every 500 ms
StartDelayMax == 2000
DurationMin == 5000
DurationMax == 8000
CheckEvery == 500

(* ------------------------------ inputs -------------------------------- *)
\* "" stands for a header or field that is missing (falsy in JavaScript)
Absent == ""
NoKey == Absent
Keys == {"k1", "k2"}
KeyInputs == Keys \cup {NoKey}
CreateBody(amount, method) ==
    [amount |-> amount, currency |-> "USD", customer_id |-> "c1",
     payment_method_id |-> method, capture_method |-> Absent]
CreateBodies ==
    {CreateBody(1, "pm_fake_visa"), CreateBody(2, "pm_fake_visa"),
     CreateBody(0, "pm_bogus")}
\* the body of a confirm and the force=failure query parameter
ConfirmInput(method, forceFailure) ==
    [data |-> [payment_method_id |-> method], forceFailure |-> forceFailure]
ConfirmInputs ==
    {ConfirmInput(Absent, FALSE), ConfirmInput(Absent, TRUE),
     ConfirmInput("pm_fake_mastercard", FALSE), ConfirmInput("pm_bogus", FALSE)}
\* the ids of the intents that may exist and one that never does
IntentIdInputs == 1..(MaxIntents + 1)
\* payment_id 0 stands for a request body without payment_id; the other ids
\* are those of the payments that may exist and one that never does
RefundBody(payment_id, amount) == [payment_id |-> payment_id, amount |-> amount]
RefundBodies ==
    {RefundBody(0, 1)} \cup {RefundBody(MaxIntents + 1, 1)}
        \cup {RefundBody(p, a) : p \in 1..MaxIntents, a \in {0, 1, 2}}
ClockSteps == {TTL_MS, TTL_MS + 1}

(* ------------------------------- state -------------------------------- *)
VARIABLES
    paymentIntents,   \* store.paymentIntents: intent id -> current intent object
    intentObjects,    \* the object createPaymentIntent allocated for each id
    paymentJobs,      \* store.paymentJobs: intent id -> list of 5 job records
    runs,             \* orchestrator runs: stage tasks and completion interval
    payments,         \* store.payments: payment id -> payment
    refunds,          \* store.refunds: refund id -> refund
    idempotencyKeys,  \* store.idempotencyKeys: key -> {result, timestamp}
    now,              \* Date.now()
    firstUse          \* per key: the request that stored the record and the
                      \* response it was answered with (history)

\* the frontend hook usePaymentFlow, as far as status polling goes
VARIABLES
    pollingRef,       \* pollingRef.current: the interval timer last set, 0 for null
    timers,           \* the interval timers that are set and not cleared
    pollings,         \* number of calls of startPolling so far
    retryCount,       \* retryCount of each call of startPolling
    inflight,         \* per call: polls awaiting getIntentStatus / getPaymentResult
    pollingError      \* what setError was last called with by a poll

storeVars == <<paymentIntents, intentObjects, paymentJobs, runs, payments, refunds>>

backendVars == <<storeVars, idempotencyKeys, now, firstUse>>

pollVars == <<pollingRef, timers, pollings, retryCount, inflight, pollingError>>

vars == <<paymentIntents, intentObjects, paymentJobs, runs, payments, refunds,
          idempotencyKeys, now, firstUse,
          pollingRef, timers, pollings, retryCount, inflight, pollingError>>

NoEntry == [result |-> Absent]
NoUse == [op |-> Absent]

\* the hook before startPolling is called: useRef(null), useState(null)
NoTimer == 0
PollIds == 1..MaxPollings
NotPolling ==
    /\ pollingRef = NoTimer
    /\ timers = {}
    /\ pollings = 0
    /\ retryCount = [c \in PollIds |-> 0]
    /\ inflight = [c \in PollIds |-> [intent |-> 0, result |-> 0]]
    /\ pollingError = Absent

Init ==
    /\ paymentIntents = <<>>
    /\ intentObjects = <<>>
    /\ paymentJobs = [i \in {} |-> <<>>]
    /\ runs = <<>>
    /\ payments = <<>>
    /\ refunds = <<>>
    /\ idempotencyKeys = [k \in Keys |-> NoEntry]
    /\ now = 0
    /\ firstUse = [k \in Keys |-> NoUse]
    /\ NotPolling

(* ------------------------------ lib/store.js -------------------------- *)
IntentIds == 1..Len(paymentIntents)

\* store.getPaymentIntent: undefined for an unknown id
HasIntent(id) == id \in IntentIds

\* a store that records a failed intent as canceled
updatePaymentIntentCancels(intents, id, updates) ==
    [intents EXCEPT ![id] =
        [isOriginal |-> FALSE]
            @@ (IF updates.status = FAILED
                THEN [updates EXCEPT !.status = CANCELED] ELSE updates)
            @@ @]

\* store.updatePaymentIntent: the Map entry is replaced by a copy
\* {...intent, ...updates}; the object it replaces is left as it was
updatePaymentIntent(intents, id, updates) ==
    [intents EXCEPT ![id] = [isOriginal |-> FALSE] @@ updates @@ @]

\* a createPayment that loses the payment
createPaymentLost(list, payment) == list

\* store.createPayment: a payment id is fresh, the Map gets one more entry
createPayment(list, payment) == Append(list, payment)

\* store.getPayment
HasPayment(pid) == pid \in 1..Len(payments)

\* store.getPaymentByIntentId: the first payment of that intent, or null
PaymentsOfIntent(id) == {p \in 1..Len(payments) : payments[p].payment_intent_id = id}
getPaymentByIntentId(id) ==
    IF PaymentsOfIntent(id) = {} THEN 0
    ELSE CHOOSE p \in PaymentsOfIntent(id) : \A q \in PaymentsOfIntent(id) : p <= q

\* an expiry test that already expires an entry at the age of TTL_MS
ExpiredAtTtl(entry, t) == t - entry.timestamp >= TTL_MS

\* store.getIdempotencyResult, the expiry test
Expired(entry, t) == t - entry.timestamp > TTL_MS

\* a lookup of key k would return a result
Live(k) == idempotencyKeys[k] # NoEntry /\ ~Expired(idempotencyKeys[k], now)

\* store.setIdempotencyResult
setIdempotencyResult(keys, k, result) ==
    [keys EXCEPT ![k] = [result |-> result, timestamp |-> now]]

\* a sweep that already removes an entry at the age of TTL_MS
cleanupAtTtl(keys) ==
    [k \in Keys |->
        IF keys[k] # NoEntry /\ keys[k].timestamp <= now - TTL_MS THEN NoEntry ELSE keys[k]]

\* store.cleanup: the hourly sweep
cleanup(keys) ==
    [k \in Keys |->
        IF keys[k] # NoEntry /\ keys[k].timestamp < now - TTL_MS THEN NoEntry ELSE keys[k]]

(* ------------------------------ lib/jobs.js --------------------------- *)
getProcessingJobs(id) == IF id \in DOMAIN paymentJobs THEN paymentJobs[id] ELSE <<>>

\* jobs that are started by the call that creates them
NewJobsStarted ==
    [s \in Stages |->
        [type |-> JOB_TYPES[s], status |-> PROCESSING, order |-> s,
         started_at |-> TRUE, completed_at |-> FALSE, error_message |-> Absent]]

\* createProcessingJobs: one pending job per job type, none started
NewJobs ==
    [s \in Stages |->
        [type |-> JOB_TYPES[s], status |-> PENDING, order |-> s,
         started_at |-> FALSE, completed_at |-> FALSE, error_message |-> Absent]]

\* an updateJobStatus that writes the job anew instead of merging the
\* additional fields into it
updateJobStatusOverwrite(jobs, type, status, started, completed, message) ==
    [n \in 1..Len(jobs) |->
        IF jobs[n].type = type
        THEN [jobs[n] EXCEPT !.status = status,
                             !.started_at = started,
                             !.completed_at = completed,
                             !.error_message = message]
        ELSE jobs[n]]

\* an updateJobStatus that pushes the updated job instead of replacing it
updateJobStatusPush(jobs, type, status, started, completed, message) ==
    jobs \o SelectSeq([n \in 1..Len(jobs) |->
                        [jobs[n] EXCEPT !.status = status,
                                        !.started_at = @ \/ started,
                                        !.completed_at = @ \/ completed]],
                     LAMBDA j : j.type = type)

\* updateJobStatus: the job with that type, if any, gets the status and the
\* additional fields; the list keeps its length and order
updateJobStatus(jobs, type, status, started, completed, message) ==
    [n \in 1..Len(jobs) |->
        IF jobs[n].type = type
            /\ \A m \in 1..(n - 1) : jobs[m].type # type
        THEN [jobs[n] EXCEPT !.status = status,
                             !.started_at = @ \/ started,
                             !.completed_at = @ \/ completed,
                             !.error_message = IF message # Absent THEN message ELSE @]
        ELSE jobs[n]]

getJobFailureMessage(type) ==
    CASE type = "anti_fraud" -> "Transaction flagged as potentially fraudulent"
      [] type = "authorization" -> "Payment authorization declined by issuer"
      [] type = "risk_assessment" -> "Transaction risk score too high"
      [] type = "compliance_check" -> "Compliance verification failed"
      [] type = "capture" -> "Payment capture failed"
      [] OTHER -> "Job processing failed"

\* a completion test that reports as soon as one job has failed
areAllJobsCompletedOrOneFailed(id) ==
    LET jobs == getProcessingJobs(id) IN
    /\ Len(jobs) # 0
    /\ \/ \A n \in 1..Len(jobs) : jobs[n].status \in TerminalJobStatuses
       \/ \E n \in 1..Len(jobs) : jobs[n].status = FAILED

areAllJobsCompleted(id) ==
    LET jobs == getProcessingJobs(id) IN
    /\ Len(jobs) # 0
    /\ \A n \in 1..Len(jobs) : jobs[n].status \in TerminalJobStatuses

\* a success test with some in place of every
wasProcessingSuccessfulSome(id) ==
    LET jobs == getProcessingJobs(id) IN
    /\ Len(jobs) # 0
    /\ \E n \in 1..Len(jobs) : jobs[n].status = COMPLETED

wasProcessingSuccessful(id) ==
    LET jobs == getProcessingJobs(id) IN
    /\ Len(jobs) # 0
    /\ \A n \in 1..Len(jobs) : jobs[n].status = COMPLETED

(* ----------------------------- validation ----------------------------- *)
Append1(cond, seq, e) == IF cond THEN Append(seq, e) ELSE seq

Violation(code, param) == [type |-> "validation_error", code |-> code, param |-> param]

\* a validation that lets an amount of 0 pass
validatePaymentIntentDataZeroOk(data) ==
    LET e1 == Append1(data.amount < 0, <<>>, Violation("invalid_amount", "amount"))
        e2 == Append1(data.currency \notin VALID_CURRENCIES, e1,
                      Violation("invalid_currency", "currency"))
        e3 == Append1(data.customer_id = Absent, e2,
                      Violation("missing_customer", "customer_id"))
        e4 == Append1(data.payment_method_id \notin VALID_PAYMENT_METHODS, e3,
                      Violation("invalid_payment_method", "payment_method_id"))
        e5 == Append1(data.capture_method # Absent
                        /\ data.capture_method \notin CAPTURE_METHODS, e4,
                      Violation("invalid_capture_method", "capture_method"))
    IN  e5

validatePaymentIntentData(data) ==
    LET e1 == Append1(data.amount <= 0, <<>>, Violation("invalid_amount", "amount"))
        e2 == Append1(data.currency \notin VALID_CURRENCIES, e1,
                      Violation("invalid_currency", "currency"))
        e3 == Append1(data.customer_id = Absent, e2,
                      Violation("missing_customer", "customer_id"))
        e4 == Append1(data.payment_method_id \notin VALID_PAYMENT_METHODS, e3,
                      Violation("invalid_payment_method", "payment_method_id"))
        e5 == Append1(data.capture_method # Absent
                        /\ data.capture_method \notin CAPTURE_METHODS, e4,
                      Violation("invalid_capture_method", "capture_method"))
    IN  e5

validateRefundData(data) ==
    LET e1 == Append1(data.payment_id = 0, <<>>,
                      Violation("missing_payment_id", "payment_id"))
        e2 == Append1(data.amount <= 0, e1, Violation("invalid_amount", "amount"))
    IN  e2

(* --------------------------- server.js: responses --------------------- *)
NoHeaders == <<>>

\* handleError, ValidationError branch: only the first violation is sent
ValidationErrorResponse(errors) ==
    [status |-> 422, headers |-> NoHeaders, body |-> [error |-> errors[1]]]

NotFoundResponse ==
    [status |-> 404, headers |-> NoHeaders,
     body |-> [error |-> [type |-> "invalid_request_error", code |-> "resource_not_found"]]]

\* handleError, TooEarlyError branch: the error is the bare string 'processing'
TooEarlyResponse ==
    [status |-> 425, headers |-> NoHeaders, body |-> [error |-> [bare |-> "processing"]]]

MissingKeyResponse ==
    [status |-> 409, headers |-> NoHeaders,
     body |-> [error |-> [type |-> "invalid_request_error",
                          code |-> "missing_idempotency_key"]]]

UnexpectedStateError(status) ==
    [type |-> "invalid_request_error", code |-> "payment_intent_unexpected_state",
     param |-> "status", message |-> status]

CardError ==
    [type |-> "card_error", code |-> "invalid_payment_method",
     param |-> "payment_method_id"]

PaymentNotSucceededError ==
    [type |-> "invalid_request_error", code |-> "payment_not_succeeded",
     param |-> "payment_id"]

Ok(body) == [status |-> 200, headers |-> NoHeaders, body |-> body]

\* `pi_${uuid}`: the id of the n-th intent as it is written in requests and
\* responses; n stands for the n-th uuid drawn
IntentId(n) == <<"pi_", n>>

\* res.json of an intent object: failure_reason appears only when it is set
IntentJson(o) ==
    LET base == [id |-> IntentId(o.id), status |-> o.status, amount |-> o.amount,
                 currency |-> o.currency, customer_id |-> o.customer_id,
                 payment_method_id |-> o.payment_method_id,
                 capture_method |-> o.capture_method,
                 client_secret |-> o.client_secret]
    IN  IF o.failure_reason # Absent
        THEN base @@ [failure_reason |-> o.failure_reason]
        ELSE base

\* A stored result whose body is the intent object itself holds a reference
\* to it: the body is serialised when a response is written from the result.
IsRef(body) == "ref" \in DOMAIN body

ResponseOf(result) ==
    [status |-> result.status, headers |-> result.headers,
     body |-> IF IsRef(result.body)
              THEN IntentJson(intentObjects[result.body.ref])
              ELSE result.body]

(* ----------------------- outcomes of a request ------------------------ *)
\* An outcome is the response a request is answered with and the store the
\* request leaves behind.
\* the history of a key ends with its record
UsesOf(keys) == [k \in Keys |-> IF keys[k] = NoEntry THEN NoUse ELSE firstUse[k]]

\* the store is left as it was, except for the cache as given
Unchanged(response, keys) ==
    [response |-> response, paymentIntents |-> paymentIntents,
     intentObjects |-> intentObjects, paymentJobs |-> paymentJobs, runs |-> runs,
     payments |-> payments, refunds |-> refunds, idempotencyKeys |-> keys,
     firstUse |-> UsesOf(keys)]

Commit(o) ==
    /\ paymentIntents' = o.paymentIntents
    /\ intentObjects' = o.intentObjects
    /\ paymentJobs' = o.paymentJobs
    /\ runs' = o.runs
    /\ payments' = o.payments
    /\ refunds' = o.refunds
    /\ idempotencyKeys' = o.idempotencyKeys
    /\ firstUse' = o.firstUse
    /\ now' = now
    /\ UNCHANGED pollVars

(* ------------------- server.js: handleIdempotency --------------------- *)
\* store.getIdempotencyResult deletes an expired entry it finds
AfterLookup(k) ==
    IF idempotencyKeys[k] # NoEntry /\ Expired(idempotencyKeys[k], now)
    THEN [idempotencyKeys EXCEPT ![k] = NoEntry]
    ELSE idempotencyKeys

\* a middleware that never looks the key up
handleIdempotencyNoLookup(k, handled) ==
    IF k = NoKey THEN Unchanged(MissingKeyResponse, idempotencyKeys) ELSE handled

\* a middleware whose records are kept per operation and target: a record is
\* served only to a request for the operation and target that stored it
handleIdempotencyScoped(k, handled) ==
    IF k = NoKey THEN Unchanged(MissingKeyResponse, idempotencyKeys)
    ELSE IF /\ Live(k)
            /\ handled.firstUse[k].op = firstUse[k].op
            /\ handled.firstUse[k].target = firstUse[k].target
    THEN Unchanged(ResponseOf(idempotencyKeys[k].result), idempotencyKeys)
    ELSE handled

\* handleIdempotency: the request is answered by the middleware (no key, or a
\* stored result), or else by the route handler, whose outcome is `handled`
handleIdempotency(k, handled) ==
    IF k = NoKey THEN Unchanged(MissingKeyResponse, idempotencyKeys)
    ELSE IF Live(k) THEN Unchanged(ResponseOf(idempotencyKeys[k].result), idempotencyKeys)
    ELSE handled

\* an error handler that stores the error response under the key
ThrownAndStored(k, response) ==
    [Unchanged(response, idempotencyKeys) EXCEPT
        !.idempotencyKeys = setIdempotencyResult(AfterLookup(k), k, response)]

\* an error handler that stores the response of a validation error under
\* the key, as a record of the request
ThrownCached(k, response) ==
    IF response.status = 422
    THEN [Unchanged(response, idempotencyKeys) EXCEPT
            !.idempotencyKeys = setIdempotencyResult(AfterLookup(k), k, response),
            !.firstUse = [UsesOf(AfterLookup(k)) EXCEPT ![k] =
                             [op |-> "error", response |-> response]]]
    ELSE Unchanged(response, AfterLookup(k))

\* the handler threw: handleError writes the response
Thrown(k, response) == Unchanged(response, AfterLookup(k))

\* the handler stored `result` under k and answered with `response`, the
\* serialisation of that result
Stored(k, result, response, request) ==
    [Unchanged(response, idempotencyKeys) EXCEPT
        !.idempotencyKeys = setIdempotencyResult(AfterLookup(k), k, result),
        !.firstUse = [UsesOf(AfterLookup(k)) EXCEPT ![k] =
                         request @@ [response |-> response]]]

(* ------------------------ POST /payment_intents ----------------------- *)
NewIntent(id, data) ==
    [id |-> id, status |-> REQUIRES_CONFIRMATION, amount |-> data.amount,
     currency |-> data.currency, customer_id |-> data.customer_id,
     payment_method_id |-> data.payment_method_id,
     capture_method |-> IF data.capture_method # Absent
                        THEN data.capture_method ELSE "automatic",
     client_secret |-> <<"pi_", id, "_secret_sample">>,
     failure_reason |-> Absent, isOriginal |-> TRUE]

createPaymentIntent(k, data) ==
    LET errors == validatePaymentIntentData(data)
        id == Len(paymentIntents) + 1
        intent == NewIntent(id, data)
        result == [status |-> 201, headers |-> <<<<"Location", "payment_intents", id>>>>,
                   body |-> [ref |-> id]]
        response == [status |-> 201, headers |-> result.headers,
                     body |-> IntentJson(intent)]
    IN  IF errors # <<>>
        THEN Thrown(k, ValidationErrorResponse(errors))
        ELSE [Stored(k, result, response,
                     [op |-> "create", target |-> 0, body |-> data])
                EXCEPT !.paymentIntents = Append(paymentIntents, intent),
                       !.intentObjects = Append(intentObjects, intent)]

CreateIntentOutcome(k, data) == handleIdempotency(k, createPaymentIntent(k, data))

CreateIntentReq(k, data) ==
    \E o \in {CreateIntentOutcome(k, data)} :
        /\ Len(o.paymentIntents) <= MaxIntents
        /\ Commit(o)

(* ------------------- PATCH /payment_intents/:id/confirm --------------- *)
\* a draw that ignores forceFailure
FailureChoicesUnforced(forceFailure) == {0} \cup Stages

\* processJobsInParallel: the stage that will fail, 0 for none
\* (shouldFail = forceFailure || Math.random() < 0.1)
FailureChoices(forceFailure) == IF forceFailure THEN Stages ELSE {0} \cup Stages

NewRun(id, forceFailure, failureJobType) ==
    [intent |-> id, forceFailure |-> forceFailure, failureJobType |-> failureJobType,
     pc |-> [s \in Stages |-> "delay"], interval |-> TRUE]

\* a confirm that drops the override
SetMethodDropped(objects, id, method) == objects

\* line 100, intent.payment_method_id = ...: an assignment to a field of an
\* intent object
SetMethod(objects, id, method) ==
    IF method = Absent THEN objects
    ELSE [objects EXCEPT ![id].payment_method_id = method]

\* startAsyncProcessing -> createProcessingJobs: the job list of the intent
\* is set to five pending jobs
createProcessingJobs(id) ==
    [i \in DOMAIN paymentJobs \cup {id} |-> IF i = id THEN NewJobs ELSE paymentJobs[i]]

\* no guard on the status
ConfirmableAlways(status) == TRUE

\* a guard that only refuses an intent that is being processed
ConfirmableUnlessProcessing(status) == status # PROCESSING

\* a guard that only refuses an intent that has reached its final status
ConfirmableUnlessFinal(status) == status \notin {SUCCEEDED, FAILED}

\* the guard of confirmPaymentIntent on the intent's status
Confirmable(status) == status = REQUIRES_CONFIRMATION

\* confirmPaymentIntent; failureJobType is the draw of processJobsInParallel
confirmPaymentIntent(k, id, data, forceFailure, failureJobType) ==
    IF ~HasIntent(id)
    THEN Thrown(k, NotFoundResponse)
    ELSE IF ~Confirmable(paymentIntents[id].status)
    THEN Thrown(k, ValidationErrorResponse(<<UnexpectedStateError(paymentIntents[id].status)>>))
    ELSE IF data.payment_method_id # Absent
            /\ data.payment_method_id \notin VALID_PAYMENT_METHODS
    THEN Thrown(k, ValidationErrorResponse(<<CardError>>))
    ELSE LET result == [status |-> 202,
                        headers |-> <<<<"Location", "payment_intents", id>>,
                                      <<"Retry-After", "3", 0>>>>,
                        body |-> [id |-> IntentId(id), status |-> PROCESSING]]
         IN  [Stored(k, result, ResponseOf(result),
                     [op |-> "confirm", target |-> id, body |-> data,
                      force |-> forceFailure])
                EXCEPT !.paymentIntents =
                           updatePaymentIntent(
                               SetMethod(paymentIntents, id, data.payment_method_id),
                               id, [status |-> PROCESSING]),
                       \* the object the Map held is the one createPaymentIntent
                       \* allocated unless updatePaymentIntent has replaced it
                       !.intentObjects =
                           IF paymentIntents[id].isOriginal
                           THEN SetMethod(intentObjects, id, data.payment_method_id)
                           ELSE intentObjects,
                       !.paymentJobs = createProcessingJobs(id),
                       !.runs = Append(runs, NewRun(id, forceFailure, failureJobType))]

ConfirmOutcome(k, id, data, forceFailure, failureJobType) ==
    handleIdempotency(k, confirmPaymentIntent(k, id, data, forceFailure, failureJobType))

\* the draw is made only when a run is started
ConfirmReq(k, id, data, forceFailure) ==
    \E o \in {ConfirmOutcome(k, id, data, forceFailure, 0)} :
        IF o.runs = runs
        THEN Commit(o)
        ELSE /\ Len(o.runs) <= MaxRuns
             /\ \E f \in FailureChoices(forceFailure) :
                    Commit([o EXCEPT !.runs = Append(runs, NewRun(id, forceFailure, f))])

(* ----------------------- lib/jobs.js: stage tasks --------------------- *)
RunIds == 1..Len(runs)

SetPc(r, s, pc) == [runs EXCEPT ![r].pc[s] = pc]

\* one job list shared by all intents: the key does not hold the intent id
SetJobsShared(id, jobs) == [i \in DOMAIN paymentJobs \cup {id} |-> jobs]

\* store.paymentJobs.set(jobsKey, jobs) in updateJobStatus
SetJobs(id, jobs) == [i \in DOMAIN paymentJobs \cup {id} |->
                         IF i = id THEN jobs ELSE paymentJobs[i]]

\* a loop that awaits the task of a stage before it starts the next one
AwaitsPrevious(r, s) == {t \in Stages : t < s}

\* processJobsInParallel, jobTypes.map: the stages whose task must have
\* resolved before the task of stage s is started.  The five tasks are
\* started in one synchronous pass and none awaits another.
Awaits(r, s) == {}

\* processIndividualJob after the start delay: the job becomes processing
StartStage(r, s) ==
    /\ r \in RunIds
    /\ runs[r].pc[s] = "delay"
    /\ \A t \in Awaits(r, s) : runs[r].pc[t] = "done"
    /\ runs' = SetPc(r, s, "working")
    /\ paymentJobs' = SetJobs(runs[r].intent,
            updateJobStatus(getProcessingJobs(runs[r].intent), JOB_TYPES[s],
                            PROCESSING, TRUE, FALSE, Absent))
    /\ UNCHANGED <<paymentIntents, intentObjects, payments, refunds,
                   idempotencyKeys, now, firstUse, pollVars>>

\* The five tasks of a run set their start timers in the same turn of the
\* event loop, each below StartDelayMax, and a task sets its duration timer,
\* of at least DurationMin, when its start timer fires: with
\* StartDelayMax <= DurationMin every start timer of the run is due before
\* any duration timer of the run.
DurationElapsed(r) ==
    StartDelayMax <= DurationMin => \A t \in Stages : runs[r].pc[t] # "delay"

\* every stage of a run that is to fail ends failed
StageResultAny(r, s) == IF runs[r].failureJobType # 0 THEN FAILED ELSE COMPLETED

\* the status processIndividualJob ends stage s of run r with
StageResult(r, s) == IF runs[r].failureJobType = s THEN FAILED ELSE COMPLETED

\* processIndividualJob after the duration: the job fails if it is the
\* designated stage and completes otherwise
FinishStage(r, s) ==
    /\ r \in RunIds
    /\ runs[r].pc[s] = "working"
    /\ DurationElapsed(r)
    /\ \A t \in Awaits(r, s) : runs[r].pc[t] = "done"
    /\ runs' = SetPc(r, s, "done")
    /\ paymentJobs' = SetJobs(runs[r].intent,
            updateJobStatus(getProcessingJobs(runs[r].intent), JOB_TYPES[s],
                            StageResult(r, s), FALSE, TRUE,
                            IF StageResult(r, s) = FAILED
                            THEN getJobFailureMessage(JOB_TYPES[s]) ELSE Absent))
    /\ UNCHANGED <<paymentIntents, intentObjects, payments, refunds,
                   idempotencyKeys, now, firstUse, pollVars>>

(* --------------- lib/payments.js: the completion interval ------------- *)
\* a payment that records nothing as captured
NewPaymentUncaptured(id, intent) ==
    [payment_id |-> Len(payments) + 1, payment_intent_id |-> id,
     status |-> SUCCEEDED, captured_amount |-> 0]

NewPayment(id, intent) ==
    [payment_id |-> Len(payments) + 1, payment_intent_id |-> id,
     status |-> SUCCEEDED, captured_amount |-> intent.amount]

\* the status comparison of the callback inverted
IntervalStopsInverted(id) == ~HasIntent(id) \/ paymentIntents[id].status = PROCESSING

\* the interval callback returns at once: clearInterval and nothing else
IntervalStops(id) == ~HasIntent(id) \/ paymentIntents[id].status # PROCESSING

\* one firing of the setInterval callback of startAsyncProcessing
checkJobsCompletion(r) ==
    /\ r \in RunIds
    /\ runs[r].interval
    /\ UNCHANGED <<intentObjects, paymentJobs, refunds, idempotencyKeys, now, firstUse,
                   pollVars>>
    /\ LET id == runs[r].intent IN
       IF IntervalStops(id)
       THEN /\ runs' = [runs EXCEPT ![r].interval = FALSE]
            /\ UNCHANGED <<paymentIntents, payments>>
       ELSE IF ~areAllJobsCompleted(id)
       THEN UNCHANGED <<runs, paymentIntents, payments>>
       ELSE /\ runs' = [runs EXCEPT ![r].interval = FALSE]
            /\ IF wasProcessingSuccessful(id)
               THEN /\ paymentIntents' =
                          updatePaymentIntent(paymentIntents, id, [status |-> SUCCEEDED])
                    /\ payments' = createPayment(payments, NewPayment(id, paymentIntents[id]))
               ELSE /\ paymentIntents' =
                          updatePaymentIntent(paymentIntents, id,
                              [status |-> FAILED,
                               failure_reason |-> IF runs[r].forceFailure
                                                  THEN "forced_failure"
                                                  ELSE "processing_failed"])
                    /\ UNCHANGED payments

(* ------------------------------- reads -------------------------------- *)
\* GET /payment_intents/:id
GetIntentResponse(id) ==
    IF HasIntent(id) THEN Ok(IntentJson(paymentIntents[id])) ELSE NotFoundResponse

GetIntentReq(id) == UNCHANGED vars

\* a getPaymentResult without the test for an intent that is processing
getPaymentResultNoTooEarly(id) ==
    IF ~HasIntent(id) THEN NotFoundResponse
    ELSE IF paymentIntents[id].status # SUCCEEDED THEN NotFoundResponse
    ELSE IF getPaymentByIntentId(id) = 0 THEN NotFoundResponse
    ELSE Ok(payments[getPaymentByIntentId(id)])

\* getPaymentResult: what GET /payments/:intentId answers
getPaymentResult(id) ==
    IF ~HasIntent(id) THEN NotFoundResponse
    ELSE IF paymentIntents[id].status = PROCESSING THEN TooEarlyResponse
    ELSE IF paymentIntents[id].status # SUCCEEDED THEN NotFoundResponse
    ELSE IF getPaymentByIntentId(id) = 0 THEN NotFoundResponse
    ELSE Ok(payments[getPaymentByIntentId(id)])

GetPaymentResultReq(id) == UNCHANGED vars

\* GET /payment_intents/:id/jobs: answered for every id, with [] for an id
\* that has no jobs
GetJobsResponse(id) ==
    Ok([payment_intent_id |-> IntentId(id), jobs |-> getProcessingJobs(id)])

GetJobsReq(id) == UNCHANGED vars

(* ---------------------------- POST /refunds --------------------------- *)
NewRefund(data) ==
    [id |-> Len(refunds) + 1, payment_id |-> data.payment_id, amount |-> data.amount,
     reason |-> "requested_by_customer", status |-> SUCCEEDED]

\* the response of a handler that did not throw is written from its result
NotRefused == [status |-> 0]

\* a createRefund that does not look at the status of the payment
refundRefusalNoStatus(list, data) ==
    IF validateRefundData(data) # <<>>
    THEN ValidationErrorResponse(validateRefundData(data))
    ELSE IF data.payment_id \notin 1..Len(list)
    THEN NotFoundResponse
    ELSE NotRefused

\* a createRefund that looks the payment up before it validates the body
refundRefusalLookupFirst(list, data) ==
    IF data.payment_id \notin 1..Len(list)
    THEN NotFoundResponse
    ELSE IF validateRefundData(data) # <<>>
    THEN ValidationErrorResponse(validateRefundData(data))
    ELSE IF list[data.payment_id].status # SUCCEEDED
    THEN ValidationErrorResponse(<<PaymentNotSucceededError>>)
    ELSE NotRefused

\* createRefund, the checks before the refund is built: the error response
\* of the request when the payments are `list`, NotRefused if it passes
refundRefusal(list, data) ==
    IF validateRefundData(data) # <<>>
    THEN ValidationErrorResponse(validateRefundData(data))
    ELSE IF data.payment_id \notin 1..Len(list)
    THEN NotFoundResponse
    ELSE IF list[data.payment_id].status # SUCCEEDED
    THEN ValidationErrorResponse(<<PaymentNotSucceededError>>)
    ELSE NotRefused

\* a createRefund whose refund id is the payment's: a later refund of the
\* payment takes the place of the earlier one in the Map
createRefundKeyedByPayment(k, data) ==
    LET refund == NewRefund(data)
        result == [status |-> 201, headers |-> <<<<"Location", "refunds", refund.id>>>>,
                   body |-> refund]
    IN  IF refundRefusal(payments, data) # NotRefused
        THEN Thrown(k, refundRefusal(payments, data))
        ELSE [Stored(k, result, ResponseOf(result),
                     [op |-> "refund", target |-> data.payment_id, body |-> data])
                EXCEPT !.refunds =
                    SelectSeq(refunds, LAMBDA x : x.payment_id # data.payment_id)
                        \o <<refund>>]

createRefund(k, data) ==
    LET refund == NewRefund(data)
        result == [status |-> 201, headers |-> <<<<"Location", "refunds", refund.id>>>>,
                   body |-> refund]
    IN  IF refundRefusal(payments, data) # NotRefused
        THEN Thrown(k, refundRefusal(payments, data))
        ELSE [Stored(k, result, ResponseOf(result),
                     [op |-> "refund", target |-> data.payment_id, body |-> data])
                EXCEPT !.refunds = Append(refunds, refund)]

CreateRefundOutcome(k, data) == handleIdempotency(k, createRefund(k, data))

CreateRefundReq(k, data) ==
    \E o \in {CreateRefundOutcome(k, data)} :
        /\ Len(o.refunds) <= MaxRefunds
        /\ Commit(o)

(* --------------------------- time and sweep --------------------------- *)
\* a timer of a run is still set
TimersSet(r) == runs[r].interval \/ \E s \in Stages : runs[r].pc[s] # "done"

\* The clock advances by d.  The timers of a run are all due within
\* StartDelayMax + DurationMax + CheckEvery of the confirm that set them, so
\* none of them is still set once more than that has passed.
Tick(d) ==
    /\ now + d <= TTL_MS + MaxOver
    /\ d > StartDelayMax + DurationMax + CheckEvery => \A r \in RunIds : ~TimersSet(r)
    /\ now' = now + d
    /\ UNCHANGED <<storeVars, idempotencyKeys, firstUse, pollVars>>

\* the hourly setInterval callback of server.js
Cleanup ==
    /\ idempotencyKeys' = cleanup(idempotencyKeys)
    /\ firstUse' = UsesOf(idempotencyKeys')
    /\ UNCHANGED <<storeVars, now, pollVars>>

(* --------------------------- specification ---------------------------- *)
Next ==
    \/ \E k \in KeyInputs, data \in CreateBodies : CreateIntentReq(k, data)
    \/ \E k \in KeyInputs, id \in IntentIdInputs, in \in ConfirmInputs :
          ConfirmReq(k, id, in.data, in.forceFailure)
    \/ \E r \in RunIds, s \in Stages : StartStage(r, s)
    \/ \E r \in RunIds, s \in Stages : FinishStage(r, s)
    \/ \E r \in RunIds : checkJobsCompletion(r)
    \/ \E id \in IntentIdInputs : GetIntentReq(id)
    \/ \E id \in IntentIdInputs : GetPaymentResultReq(id)
    \/ \E id \in IntentIdInputs : GetJobsReq(id)
    \/ \E k \in KeyInputs, data \in RefundBodies : CreateRefundReq(k, data)
    \/ \E d \in ClockSteps : Tick(d)
    \/ Cleanup

Spec == Init /\ [][Next]_vars

\* Node fires every timer that is set: each stage task takes its steps and the
\* completion interval keeps firing until it is cleared
TimersFire ==
    /\ \A r \in 1..MaxRuns, s \in Stages : WF_vars(StartStage(r, s))
    /\ \A r \in 1..MaxRuns, s \in Stages : WF_vars(FinishStage(r, s))
    /\ \A r \in 1..MaxRuns : WF_vars(checkJobsCompletion(r))

FairSpec == Spec /\ TimersFire

(* -------------------- two intents processed side by side -------------- *)
\* number of intents in the specification of two intents
MaxPairIntents == 2
\* the highest stage a draw of processJobsInParallel designates there
MaxFailStage == 1

PairKeys == <<"k1", "k2">>
PairBodies == <<CreateBody(1, "pm_fake_visa"), CreateBody(2, "pm_fake_visa")>>

\* the result createPaymentIntent stores for intent id
PairCreateResult(id) ==
    [status |-> 201, headers |-> <<<<"Location", "payment_intents", id>>>>,
     body |-> [ref |-> id]]

\* The store after POST /payment_intents with key k1 and a body of amount 1
\* and POST /payment_intents with key k2 and a body of amount 2.
InitPair ==
    /\ paymentIntents = [id \in 1..2 |-> NewIntent(id, PairBodies[id])]
    /\ intentObjects = [id \in 1..2 |-> NewIntent(id, PairBodies[id])]
    /\ paymentJobs = [i \in {} |-> <<>>]
    /\ runs = <<>>
    /\ payments = <<>>
    /\ refunds = <<>>
    /\ idempotencyKeys =
          [k \in Keys |->
              [result |-> PairCreateResult(IF k = PairKeys[1] THEN 1 ELSE 2),
               timestamp |-> 0]]
    /\ now = 0
    /\ firstUse =
          [k \in Keys |->
              LET id == IF k = PairKeys[1] THEN 1 ELSE 2 IN
              [op |-> "create", target |-> 0, body |-> PairBodies[id],
               response |-> [status |-> 201, headers |-> PairCreateResult(id).headers,
                             body |-> IntentJson(NewIntent(id, PairBodies[id]))]]]
    /\ NotPolling

PairCreateReq(k, data) ==
    \E o \in {CreateIntentOutcome(k, data)} :
        /\ Len(o.paymentIntents) <= MaxPairIntents
        /\ Commit(o)

PairConfirmInputs == {ConfirmInput(Absent, FALSE), ConfirmInput(Absent, TRUE)}

\* ConfirmReq with the draw among no stage and the stages up to MaxFailStage
PairConfirmReq(k, id, data, forceFailure) ==
    \E o \in {ConfirmOutcome(k, id, data, forceFailure, 0)} :
        IF o.runs = runs
        THEN Commit(o)
        ELSE /\ Len(o.runs) <= MaxRuns
             /\ \E f \in FailureChoices(forceFailure) \cap (0..MaxFailStage) :
                    Commit([o EXCEPT !.runs = Append(runs, NewRun(id, forceFailure, f))])

PairRefundBodies == {RefundBody(p, 1) : p \in 1..MaxPairIntents}

PairNext ==
    \/ \E k \in Keys, data \in CreateBodies : PairCreateReq(k, data)
    \/ \E k \in Keys, id \in 1..MaxPairIntents, in \in PairConfirmInputs :
          PairConfirmReq(k, id, in.data, in.forceFailure)
    \/ \E r \in RunIds, s \in Stages : StartStage(r, s)
    \/ \E r \in RunIds, s \in Stages : FinishStage(r, s)
    \/ \E r \in RunIds : checkJobsCompletion(r)
    \/ \E k \in Keys, data \in PairRefundBodies : CreateRefundReq(k, data)
    \/ \E d \in ClockSteps : Tick(d)
    \/ Cleanup

PairSpec == InitPair /\ [][PairNext]_vars

(* ------------- frontend/src/hooks/usePaymentFlow.js: polling ---------- *)
\* let maxRetries = 30
maxRetries == 30

\* what a poll finds when getIntentStatus returns: the status of the intent,
\* or RequestError when the request throws.  The backend answers as it
\* pleases: every answer is possible at every poll.
RequestError == "request_error"
Observations == PAYMENT_STATUSES \cup {RequestError}

RECURSIVE InFlightUpTo(_)
InFlightUpTo(c) ==
    IF c = 0 THEN 0
    ELSE InFlightUpTo(c - 1) + inflight[c].intent + inflight[c].result

\* the polls that await a response
InFlight == InFlightUpTo(MaxPollings)

\* clearInterval(pollingRef.current), guarded by if (pollingRef.current)
clearInterval(set, ref) == IF ref # NoTimer THEN set \ {ref} ELSE set

\* stopPolling: the timer pollingRef.current names is cleared and
\* pollingRef.current becomes null
stopPolling ==
    /\ timers' = clearInterval(timers, pollingRef)
    /\ pollingRef' = NoTimer

\* a limit that lets one more poll pass
ExhaustedLate(count) == count > maxRetries

\* if (retryCount >= maxRetries)
Exhausted(count) == count >= maxRetries

\* startPolling: the timer of an earlier call is cleared, a new interval is
\* set and poll() is called at once, up to its await of getIntentStatus.
\* The delay of the interval is fixed when it is set; the retryDelay the
\* polls compute later has no effect and is left out.
startPolling ==
    /\ pollings < MaxPollings
    /\ InFlight < MaxInFlight
    /\ pollings' = pollings + 1
    /\ timers' = clearInterval(timers, pollingRef) \cup {pollings + 1}
    /\ pollingRef' = pollings + 1
    /\ retryCount' = [retryCount EXCEPT ![pollings + 1] = 0]
    /\ inflight' = [inflight EXCEPT ![pollings + 1].intent = @ + 1]
    /\ UNCHANGED <<pollingError, backendVars>>

\* the interval timer c fires: poll() up to its await of getIntentStatus
PollTimer(c) ==
    /\ c \in timers
    /\ InFlight < MaxInFlight
    /\ inflight' = [inflight EXCEPT ![c].intent = @ + 1]
    /\ UNCHANGED <<pollingRef, timers, pollings, retryCount, pollingError, backendVars>>

\* poll() of call c after getIntentStatus returned or threw
PollAnswered(c, observed) ==
    /\ c \in 1..pollings
    /\ inflight[c].intent > 0
    /\ UNCHANGED <<pollings, backendVars>>
    /\ IF observed = SUCCEEDED
       THEN \* await getPaymentResult(intentId)
            /\ inflight' = [inflight EXCEPT ![c].intent = @ - 1, ![c].result = @ + 1]
            /\ UNCHANGED <<pollingRef, timers, retryCount, pollingError>>
       ELSE /\ inflight' = [inflight EXCEPT ![c].intent = @ - 1]
            /\ IF observed \in {PROCESSING, RequestError}
               THEN /\ retryCount' = [retryCount EXCEPT ![c] = @ + 1]
                    /\ IF Exhausted(retryCount[c] + 1)
                       THEN /\ stopPolling
                            /\ pollingError' = IF observed = PROCESSING
                                               THEN "Polling timeout" ELSE RequestError
                       ELSE /\ UNCHANGED <<pollingRef, timers>>
                            \* getIntentStatus calls setError before it rethrows
                            /\ pollingError' = IF observed = RequestError
                                               THEN RequestError ELSE pollingError
               ELSE /\ stopPolling
                    /\ UNCHANGED <<retryCount, pollingError>>

\* poll() of call c after getPaymentResult returned or threw: the inner
\* catch swallows the error and stopPolling is called either way
ResultAnswered(c, threw) ==
    /\ c \in 1..pollings
    /\ inflight[c].result > 0
    /\ inflight' = [inflight EXCEPT ![c].result = @ - 1]
    /\ stopPolling
    /\ pollingError' = IF threw THEN RequestError ELSE pollingError
    /\ UNCHANGED <<pollings, retryCount, backendVars>>

\* reset() or the unmount of the component calls stopPolling
StopPollingReq ==
    /\ stopPolling
    /\ UNCHANGED <<pollings, retryCount, inflight, pollingError, backendVars>>

PollNext ==
    \/ startPolling
    \/ \E c \in PollIds : PollTimer(c)
    \/ \E c \in PollIds, observed \in Observations : PollAnswered(c, observed)
    \/ \E c \in PollIds, threw \in BOOLEAN : ResultAnswered(c, threw)
    \/ StopPollingReq

PollSpec == Init /\ [][PollNext]_vars

\* the browser fires an interval that is set, and every request of a poll is
\* answered or fails
PollsProceed ==
    /\ \A c \in PollIds : WF_vars(PollTimer(c))
    /\ \A c \in PollIds : WF_vars(\E observed \in Observations : PollAnswered(c, observed))
    /\ \A c \in PollIds : WF_vars(\E threw \in BOOLEAN : ResultAnswered(c, threw))

PollFairSpec == PollSpec /\ PollsProceed


(* ============================== properties ============================ *)
TerminalStatuses == {SUCCEEDED, FAILED}

\* the store part of an outcome equals the current store
StoreKept(o) ==
    /\ o.paymentIntents = paymentIntents
    /\ o.intentObjects = intentObjects
    /\ o.paymentJobs = paymentJobs
    /\ o.runs = runs
    /\ o.payments = payments
    /\ o.refunds = refunds

RECURSIVE RefundedUpTo(_, _)
\* the sum of the amounts of the first n refunds that name payment pid
RefundedUpTo(n, pid) ==
    IF n = 0 THEN 0
    ELSE RefundedUpTo(n - 1, pid)
            + (IF refunds[n].payment_id = pid THEN refunds[n].amount ELSE 0)

RefundedTotal(pid) == RefundedUpTo(Len(refunds), pid)

\* C1: for every payment, the amounts of the refunds stored for it sum to at
\* most the payment's captured_amount.
C1_RefundsWithinCaptured ==
    \A pid \in 1..Len(payments) : RefundedTotal(pid) <= payments[pid].captured_amount

\* C2: the status of an intent changes only from requires_confirmation to
\* processing and from processing to succeeded or failed; a new intent starts
\* in requires_confirmation and no intent is ever removed.
StatusStep(old, new) ==
    \/ new = old
    \/ old = REQUIRES_CONFIRMATION /\ new = PROCESSING
    \/ old = PROCESSING /\ new \in TerminalStatuses

C2_StatusMovesForward ==
    [][/\ Len(paymentIntents') >= Len(paymentIntents)
       /\ \A id \in 1..Len(paymentIntents') :
            IF id <= Len(paymentIntents)
            THEN StatusStep(paymentIntents[id].status, paymentIntents'[id].status)
            ELSE paymentIntents'[id].status = REQUIRES_CONFIRMATION]_vars

\* an intent has reached a terminal status and requests were served after it
\* did: a refund is stored for its payment, or its key was used again
C2_Witness ==
    \E id \in IntentIds :
        /\ paymentIntents[id].status \in TerminalStatuses
        /\ \/ Len(refunds) > 0
           \/ paymentIntents[id].status = FAILED /\ now > 0

\* C3: a replay of the request that stored the record of key k, while the
\* record is unexpired, is answered with the response the first request was
\* answered with and changes neither the store nor the cache.
ReplayOutcome(k) ==
    CASE firstUse[k].op = "create" -> CreateIntentOutcome(k, firstUse[k].body)
      [] firstUse[k].op = "confirm" ->
            ConfirmOutcome(k, firstUse[k].target, firstUse[k].body, firstUse[k].force, 0)
      [] firstUse[k].op = "refund" -> CreateRefundOutcome(k, firstUse[k].body)

C3_ReplayReturnsFirstResponse ==
    \A k \in Keys :
        Live(k) =>
            /\ ReplayOutcome(k).response = firstUse[k].response
            /\ StoreKept(ReplayOutcome(k))
            /\ ReplayOutcome(k).idempotencyKeys = idempotencyKeys

\* C4: a create request whose key holds an unexpired record stored by a
\* create with a different body is answered with an idempotency_conflict
\* error and changes neither the store nor the cache.
IsError(response, code) ==
    /\ "error" \in DOMAIN response.body
    /\ "code" \in DOMAIN response.body.error
    /\ response.body.error.code = code

C4_DifferentBodyConflicts ==
    \A k \in Keys, data \in CreateBodies :
        (Live(k) /\ firstUse[k].op = "create" /\ firstUse[k].body # data) =>
            /\ IsError(CreateIntentOutcome(k, data).response, "idempotency_conflict")
            /\ StoreKept(CreateIntentOutcome(k, data))
            /\ CreateIntentOutcome(k, data).idempotencyKeys = idempotencyKeys

JobsIn(id, statuses) ==
    {n \in 1..Len(getProcessingJobs(id)) : getProcessingJobs(id)[n].status \in statuses}

\* C5: an intent in a terminal status is succeeded exactly if all 5 of its
\* jobs are completed, and failed exactly if at least one of its jobs is failed.
C5_OutcomeMatchesJobs ==
    \A id \in IntentIds :
        paymentIntents[id].status \in TerminalStatuses =>
            /\ paymentIntents[id].status = SUCCEEDED
                 <=> (Len(getProcessingJobs(id)) = 5
                      /\ Cardinality(JobsIn(id, {COMPLETED})) = 5)
            /\ paymentIntents[id].status = FAILED <=> JobsIn(id, {FAILED}) # {}

\* an intent has failed after four of its jobs completed
C5_Witness ==
    \E id \in IntentIds :
        /\ paymentIntents[id].status = FAILED
        /\ Cardinality(JobsIn(id, {COMPLETED})) = 4

\* C6: an intent that is not confirmed has no jobs; a confirmed intent has
\* exactly 5 jobs, one per stage type in the order of JOB_TYPES, with orders 1..5.
C6_FiveJobsOnePerStage ==
    /\ DOMAIN paymentJobs \subseteq IntentIds
    /\ \A id \in IntentIds :
        IF paymentIntents[id].status = REQUIRES_CONFIRMATION
        THEN getProcessingJobs(id) = <<>>
        ELSE /\ Len(getProcessingJobs(id)) = 5
             /\ \A n \in 1..5 :
                    /\ getProcessingJobs(id)[n].type = JOB_TYPES[n]
                    /\ getProcessingJobs(id)[n].order = n

\* job status updates have been applied to a confirmed intent: one of its
\* jobs is terminal, one is processing
C6_Witness ==
    \E id \in IntentIds :
        /\ JobsIn(id, TerminalJobStatuses) # {}
        /\ JobsIn(id, {PROCESSING}) # {}

\* C7: an intent has a Payment exactly if it is succeeded, never more than
\* one, and once it is succeeded or failed neither its status nor its
\* payments change: one transition out of processing is applied.
PaymentsOf(list, id) == {p \in 1..Len(list) : list[p].payment_intent_id = id}

C7_FinalizedOnce ==
    /\ [](\A id \in IntentIds :
            /\ Cardinality(PaymentsOfIntent(id)) <= 1
            /\ paymentIntents[id].status = SUCCEEDED <=> PaymentsOfIntent(id) # {})
    /\ [][\A id \in IntentIds :
            paymentIntents[id].status \in TerminalStatuses =>
                /\ paymentIntents'[id].status = paymentIntents[id].status
                /\ PaymentsOf(payments', id) = PaymentsOf(payments, id)]_vars

\* an intent is succeeded, its Payment exists and the completion interval
\* of its run is cleared
C7_Witness ==
    \E id \in IntentIds, r \in RunIds :
        /\ paymentIntents[id].status = SUCCEEDED
        /\ PaymentsOfIntent(id) # {}
        /\ runs[r].intent = id
        /\ ~runs[r].interval

\* C8: while a job of an intent is pending or processing the intent is
\* processing, and an intent that is succeeded or failed has 5 jobs that are
\* all completed or failed.
C8_NotFinalizedEarly ==
    \A id \in IntentIds :
        /\ JobsIn(id, {PENDING, PROCESSING}) # {}
             => paymentIntents[id].status = PROCESSING
        /\ paymentIntents[id].status \in TerminalStatuses
             => Cardinality(JobsIn(id, TerminalJobStatuses)) = 5

\* a job of the intent has failed while another is still processing
C8_Witness ==
    \E id \in IntentIds :
        /\ JobsIn(id, {FAILED}) # {}
        /\ JobsIn(id, {PROCESSING}) # {}
        /\ paymentIntents[id].status = PROCESSING

\* C9: when the timers fire, an intent that is processing eventually is
\* succeeded or failed with all 5 jobs completed or failed.
Finished(id) ==
    /\ HasIntent(id)
    /\ paymentIntents[id].status \in TerminalStatuses
    /\ Cardinality(JobsIn(id, TerminalJobStatuses)) = 5

C9_ConfirmedIntentsFinish ==
    \A id \in 1..MaxIntents :
        (HasIntent(id) /\ paymentIntents[id].status = PROCESSING) ~> Finished(id)

\* a run has ended: no timer of it is set and its intent is finished
C9_Witness ==
    \E r \in RunIds : ~TimersSet(r) /\ Finished(runs[r].intent)

\* C10: a confirm that reaches confirmPaymentIntent (its key holds no
\* unexpired record) fails not_found on an unknown id and invalid_state on an
\* intent that is not requires_confirmation; the store is left as it was, no
\* record is stored, and the cache changes at most by the removal of the
\* expired record the lookup of the request's key found.
C10_ConfirmRefused ==
    \A k \in Keys, id \in IntentIdInputs, in \in ConfirmInputs, f \in {0} \cup Stages :
        LET o == ConfirmOutcome(k, id, in.data, in.forceFailure, f) IN
        (~Live(k) /\ (HasIntent(id) => paymentIntents[id].status # REQUIRES_CONFIRMATION)) =>
            /\ IF HasIntent(id)
               THEN /\ o.response.status = 422
                    /\ IsError(o.response, "payment_intent_unexpected_state")
                    /\ o.response.body.error.message = paymentIntents[id].status
               ELSE o.response = NotFoundResponse
            /\ StoreKept(o)
            /\ o.idempotencyKeys[k] = NoEntry
            /\ \A j \in Keys \ {k} : o.idempotencyKeys[j] = idempotencyKeys[j]

\* a succeeded intent and a key whose record has expired: a confirm with
\* that key reaches confirmPaymentIntent
C10_Witness ==
    \E id \in IntentIds, k \in Keys :
        /\ paymentIntents[id].status = SUCCEEDED
        /\ idempotencyKeys[k] # NoEntry
        /\ ~Live(k)

\* C11: a valid refund request on a succeeded payment that reaches
\* createRefund is refused with refund_exceeds_captured_amount and appends
\* nothing exactly if its amount plus the refunds already stored for the
\* payment exceeds captured_amount; otherwise it is answered 201 and appends
\* one Refund with that amount.
C11_RefundRefusedIffOverCap ==
    \A k \in Keys, data \in RefundBodies :
        (/\ ~Live(k)
         /\ validateRefundData(data) = <<>>
         /\ HasPayment(data.payment_id)
         /\ payments[data.payment_id].status = SUCCEEDED) =>
            LET o == CreateRefundOutcome(k, data) IN
            IF data.amount + RefundedTotal(data.payment_id)
                   > payments[data.payment_id].captured_amount
            THEN /\ IsError(o.response, "refund_exceeds_captured_amount")
                 /\ o.refunds = refunds
            ELSE /\ o.response.status = 201
                 /\ Len(o.refunds) = Len(refunds) + 1
                 /\ SubSeq(o.refunds, 1, Len(refunds)) = refunds
                 /\ o.refunds[Len(o.refunds)].amount = data.amount
                 /\ o.refunds[Len(o.refunds)].payment_id = data.payment_id

\* the request is answered from the record of its key and executes nothing
ServedFromRecord(k, o) ==
    /\ o.response = ResponseOf(idempotencyKeys[k].result)
    /\ StoreKept(o)
    /\ o.idempotencyKeys = idempotencyKeys

\* C12: the lookup of a key and the store of its record happen in one step:
\* a step that creates an intent, starts a run or appends a refund leaves an
\* unexpired record stored in that step, and every mutating request whose key
\* holds an unexpired record executes nothing and is answered from that record.
\* Two requests with the same fresh key are handled one after the other, so
\* the second finds the record of the first.
C12_CheckAndStoreAtomic ==
    /\ [](\A k \in Keys :
            Live(k) =>
                /\ \A data \in CreateBodies :
                       ServedFromRecord(k, CreateIntentOutcome(k, data))
                /\ \A id \in IntentIdInputs, in \in ConfirmInputs, f \in {0} \cup Stages :
                       ServedFromRecord(k, ConfirmOutcome(k, id, in.data, in.forceFailure, f))
                /\ \A data \in RefundBodies :
                       ServedFromRecord(k, CreateRefundOutcome(k, data)))
    /\ [][(\/ Len(paymentIntents') > Len(paymentIntents)
           \/ Len(runs') > Len(runs)
           \/ Len(refunds') > Len(refunds)) =>
              \E k \in Keys :
                  /\ ~(idempotencyKeys[k] # NoEntry /\ ~Expired(idempotencyKeys[k], now))
                  /\ idempotencyKeys'[k] # NoEntry
                  /\ idempotencyKeys'[k].timestamp = now'
                  /\ firstUse'[k].op \in {"create", "confirm", "refund"}
                  /\ \A j \in Keys \ {k} : idempotencyKeys'[j] = idempotencyKeys[j]]_vars

\* a confirm has started a run and the record of its key is unexpired, while
\* the create that preceded it used another key
C12_Witness ==
    \E k \in Keys, j \in Keys :
        /\ Live(k) /\ firstUse[k].op = "confirm"
        /\ Live(j) /\ firstUse[j].op = "create"
        /\ Len(runs) = 1

\* C13: as long as the record of a key is unexpired, a lookup of the key
\* yields the response of the request that stored the record.
C13_RecordKeepsFirstResponse ==
    \A k \in Keys :
        Live(k) => ResponseOf(idempotencyKeys[k].result) = firstUse[k].response

\* C14: a create, confirm or refund request without an idempotency key is
\* refused with a client error whose status is not 409 Conflict, and the
\* store and the cache are left as they were.
RefusedAsMalformed(o) ==
    /\ o.response.status \in 400..499
    /\ o.response.status # 409
    /\ StoreKept(o)
    /\ o.idempotencyKeys = idempotencyKeys

C14_MissingKeyIsNotAConflict ==
    /\ \A data \in CreateBodies : RefusedAsMalformed(CreateIntentOutcome(NoKey, data))
    /\ \A id \in IntentIdInputs, in \in ConfirmInputs :
           RefusedAsMalformed(ConfirmOutcome(NoKey, id, in.data, in.forceFailure, 0))
    /\ \A data \in RefundBodies : RefusedAsMalformed(CreateRefundOutcome(NoKey, data))

\* C15: GET /payments/:intentId is answered 404 for an unknown intent, 425
\* for an intent that is processing, 404 for a failed intent, and for a
\* succeeded intent 200 with the Payment of that intent, which always exists.
C15_PaymentResultByStatus ==
    \A id \in IntentIdInputs :
        IF ~HasIntent(id) THEN getPaymentResult(id) = NotFoundResponse
        ELSE IF paymentIntents[id].status = PROCESSING
        THEN getPaymentResult(id).status = 425
        ELSE IF paymentIntents[id].status = FAILED
        THEN getPaymentResult(id) = NotFoundResponse
        ELSE IF paymentIntents[id].status = SUCCEEDED
        THEN /\ getPaymentByIntentId(id) # 0
             /\ getPaymentResult(id) = Ok(payments[getPaymentByIntentId(id)])
             /\ getPaymentResult(id).body.payment_intent_id = id
        ELSE getPaymentResult(id) = NotFoundResponse

\* an intent is processing with a job already completed: the result is asked
\* for too early
C15_Witness ==
    \E id \in IntentIds :
        /\ paymentIntents[id].status = PROCESSING
        /\ JobsIn(id, {COMPLETED}) # {}
        /\ getPaymentResult(id).status = 425

\* C16: the answer to GET /payments/:intentId for an intent that is
\* processing carries an error object with type and code, as every other
\* error does.
C16_TooEarlyIsStructured ==
    \A id \in IntentIds :
        paymentIntents[id].status = PROCESSING =>
            {"type", "code"} \subseteq DOMAIN getPaymentResult(id).body.error

\* create bodies for validation: those of CreateBodies and one that violates
\* three fields
ValidationBodies ==
    CreateBodies \cup {[CreateBody(0, "pm_bogus") EXCEPT !.currency = "XXX"]}

\* the fields a response reports as violated
ListedFields(response) ==
    IF "errors" \in DOMAIN response.body
    THEN {response.body.errors[n].param : n \in 1..Len(response.body.errors)}
    ELSE {response.body.error.param}

\* C17: a create whose body violates some fields is answered with an error
\* that lists every violated field.
C17_AllViolationsListed ==
    \A k \in Keys, data \in ValidationBodies :
        (~Live(k) /\ validatePaymentIntentData(data) # <<>>) =>
            ListedFields(CreateIntentOutcome(k, data).response)
                = {validatePaymentIntentData(data)[n].param :
                       n \in 1..Len(validatePaymentIntentData(data))}

\* the end of a forced run: the intent is failed with a failure_reason, one
\* job is failed and four are completed
ForcedRunDone(r) ==
    /\ paymentIntents[runs[r].intent].status = FAILED
    /\ paymentIntents[runs[r].intent].failure_reason # Absent
    /\ Cardinality(JobsIn(runs[r].intent, {FAILED})) = 1
    /\ Cardinality(JobsIn(runs[r].intent, {COMPLETED})) = 4

\* C18: a run started by a confirm with force=failure leads to the intent
\* being failed with failure_reason set, one job failed and four completed;
\* that is how the intent is whenever it is terminal, it is never succeeded
\* and it never has a Payment.
C18_ForcedRunFails ==
    /\ \A r \in 1..MaxRuns :
           (r \in RunIds /\ runs[r].forceFailure) ~> (r \in RunIds /\ ForcedRunDone(r))
    /\ [](\A r \in RunIds :
            runs[r].forceFailure =>
                /\ paymentIntents[runs[r].intent].status # SUCCEEDED
                /\ PaymentsOfIntent(runs[r].intent) = {}
                /\ paymentIntents[runs[r].intent].status \in TerminalStatuses
                     => ForcedRunDone(r))

\* a forced run has ended and its interval is cleared
C18_Witness ==
    \E r \in RunIds : runs[r].forceFailure /\ ForcedRunDone(r) /\ ~TimersSet(r)

\* C19: a succeeded intent has a Payment, every Payment of an intent has
\* captured_amount equal to the intent's amount, and a Payment keeps its
\* captured_amount and its payment_intent_id.
C19_CapturedAmountIsIntentAmount ==
    /\ [](\A id \in IntentIds :
            /\ paymentIntents[id].status = SUCCEEDED => PaymentsOfIntent(id) # {}
            /\ \A p \in PaymentsOfIntent(id) :
                   payments[p].captured_amount = paymentIntents[id].amount)
    /\ [](\A p \in 1..Len(payments) : HasIntent(payments[p].payment_intent_id))
    /\ [][\A p \in 1..Len(payments) :
            /\ Len(payments') >= p
            /\ payments'[p].captured_amount = payments[p].captured_amount
            /\ payments'[p].payment_intent_id = payments[p].payment_intent_id]_vars

\* an intent created with amount 2 has succeeded and a refund has been made
\* against its Payment since
C19_Witness ==
    \E p \in 1..Len(payments) :
        /\ payments[p].captured_amount = 2
        /\ \E n \in 1..Len(refunds) : refunds[n].payment_id = p

\* C20: a record older than 24 hours is absent for a lookup: a valid create
\* or refund with its key is executed and stores a new record; a record of at
\* most 24 hours is served to every mutating request with its key, and no
\* step removes or replaces a record that is at most 24 hours old after the step.
C20_ExpiryAfterTwentyFourHours ==
    /\ [](\A k \in Keys :
            idempotencyKeys[k] # NoEntry =>
                IF now - idempotencyKeys[k].timestamp > 24 * 60 * 60 * 1000
                THEN /\ \A data \in CreateBodies :
                            validatePaymentIntentData(data) = <<>> =>
                                LET o == CreateIntentOutcome(k, data) IN
                                /\ Len(o.paymentIntents) = Len(paymentIntents) + 1
                                /\ o.response.status = 201
                                /\ o.idempotencyKeys[k].timestamp = now
                                /\ o.idempotencyKeys[k].result.status = 201
                     /\ \A data \in RefundBodies :
                            (validateRefundData(data) = <<>> /\ HasPayment(data.payment_id)) =>
                                LET o == CreateRefundOutcome(k, data) IN
                                /\ Len(o.refunds) = Len(refunds) + 1
                                /\ o.response.status = 201
                                /\ o.idempotencyKeys[k].timestamp = now
                                /\ o.idempotencyKeys[k].result.status = 201
                ELSE /\ \A data \in CreateBodies :
                            ServedFromRecord(k, CreateIntentOutcome(k, data))
                     /\ \A id \in IntentIdInputs, in \in ConfirmInputs :
                            ServedFromRecord(k, ConfirmOutcome(k, id, in.data, in.forceFailure, 0))
                     /\ \A data \in RefundBodies :
                            ServedFromRecord(k, CreateRefundOutcome(k, data)))
    /\ [][\A k \in Keys :
            (/\ idempotencyKeys[k] # NoEntry
             /\ now' - idempotencyKeys[k].timestamp <= 24 * 60 * 60 * 1000) =>
                idempotencyKeys'[k] = idempotencyKeys[k]]_vars

\* a refund was executed with a key whose earlier record had expired: its
\* record was stored after more than 24 hours
C20_Witness ==
    \E k \in Keys :
        /\ Live(k)
        /\ firstUse[k].op = "refund"
        /\ idempotencyKeys[k].timestamp > 24 * 60 * 60 * 1000

\* C21: the step of a confirm that starts a run answers 202 with
\* {id, status: processing} and leaves the intent processing with 5 jobs, all
\* pending and without start timestamp; the job listing is answered 200 in
\* every state and shows pending for a stage whose start timer has not fired.
C21_ConfirmDoesNotWait ==
    /\ [][Len(runs') > Len(runs) =>
            /\ paymentIntents'[runs'[Len(runs')].intent].status = PROCESSING
            /\ Len(paymentJobs'[runs'[Len(runs')].intent]) = 5
            /\ \A n \in 1..5 :
                   /\ paymentJobs'[runs'[Len(runs')].intent][n].status = PENDING
                   /\ ~paymentJobs'[runs'[Len(runs')].intent][n].started_at
            /\ \E k \in Keys :
                   /\ idempotencyKeys'[k] # idempotencyKeys[k]
                   /\ firstUse'[k].op = "confirm"
                   /\ firstUse'[k].response.status = 202
                   /\ firstUse'[k].response.body
                        = [id |-> IntentId(runs'[Len(runs')].intent),
                           status |-> PROCESSING]]_vars
    /\ [](\A id \in IntentIdInputs : GetJobsResponse(id).status = 200)
    /\ [](\A r \in RunIds, s \in Stages :
            runs[r].pc[s] = "delay" =>
                /\ GetJobsResponse(runs[r].intent).body.jobs[s].status = PENDING
                /\ ~GetJobsResponse(runs[r].intent).body.jobs[s].started_at)

\* a confirm has just returned: no start timer of the run has fired
C21_Witness ==
    \E r \in RunIds :
        /\ \A s \in Stages : runs[r].pc[s] = "delay"
        /\ runs[r].interval
        /\ paymentIntents[runs[r].intent].status = PROCESSING
        /\ Len(GetJobsResponse(runs[r].intent).body.jobs) = 5

\* create bodies that differ from a valid one in one field, and those of
\* ValidationBodies
FieldBodies ==
    LET B == CreateBody(1, "pm_fake_visa") IN
    ValidationBodies \cup
    {B, [B EXCEPT !.amount = 0], [B EXCEPT !.amount = -1],
     [B EXCEPT !.currency = "XXX"], [B EXCEPT !.currency = Absent],
     [B EXCEPT !.customer_id = Absent],
     [B EXCEPT !.payment_method_id = "pm_bogus"],
     [B EXCEPT !.payment_method_id = Absent],
     [B EXCEPT !.capture_method = "automatic"],
     [B EXCEPT !.capture_method = "manual"],
     [B EXCEPT !.capture_method = "deferred"]}

\* the body satisfies the create-intent rules
ValidCreate(data) ==
    /\ data.amount > 0
    /\ data.currency \in {"USD", "EUR", "GBP", "CAD", "AUD", "JPY"}
    /\ data.customer_id # Absent
    /\ data.payment_method_id
         \in {"pm_fake_visa", "pm_fake_mastercard", "pm_fake_amex", "pm_fake_discover"}
    /\ data.capture_method \in {Absent, "automatic", "manual"}

C23_RefundOfUnknownPayment ==
    \A k \in Keys, data \in RefundBodies :
        (~Live(k) /\ validateRefundData(data) = <<>> /\ ~HasPayment(data.payment_id)) =>
            LET o == CreateRefundOutcome(k, data) IN
            /\ o.response = NotFoundResponse
            /\ o.response.status = 404
            /\ StoreKept(o)
            /\ o.idempotencyKeys[k] = NoEntry
            /\ \A j \in Keys \ {k} : o.idempotencyKeys[j] = idempotencyKeys[j]

\* a Payment and a Refund are stored, and a key holds no unexpired record: a
\* refund naming another payment_id reaches createRefund
C23_Witness ==
    /\ Len(payments) = 1
    /\ Len(refunds) = 1
    /\ \E k \in Keys : ~Live(k)

\* C24: every Payment has a refunded_amount, equal to the sum of the amounts
\* of the Refunds stored for it.
C24_RefundedAmountTracksRefunds ==
    \A p \in 1..Len(payments) :
        /\ "refunded_amount" \in DOMAIN payments[p]
        /\ payments[p].refunded_amount = RefundedTotal(p)

\* payments as they would be with one Payment of the given status
PaymentsWithStatus(status) ==
    <<[payment_id |-> 1, payment_intent_id |-> 1, status |-> status,
       captured_amount |-> 2]>>

\* C25: createRefund refuses with payment_not_succeeded a valid request for
\* a Payment whose status is not succeeded and passes one for a succeeded
\* Payment; a refused request appends nothing; every stored Refund names a
\* stored Payment with status succeeded whose intent is succeeded.
C25_RefundsOnlyOnSucceeded ==
    /\ \A st \in {"pending", FAILED, CANCELED, SUCCEEDED}, amount \in {1, 2} :
           refundRefusal(PaymentsWithStatus(st), RefundBody(1, amount))
               = IF st = SUCCEEDED THEN NotRefused
                 ELSE ValidationErrorResponse(<<PaymentNotSucceededError>>)
    /\ \A k \in Keys, data \in RefundBodies :
           (~Live(k) /\ refundRefusal(payments, data) # NotRefused) =>
               /\ StoreKept(CreateRefundOutcome(k, data))
               /\ CreateRefundOutcome(k, data).response = refundRefusal(payments, data)
    /\ \A n \in 1..Len(refunds) :
           /\ HasPayment(refunds[n].payment_id)
           /\ payments[refunds[n].payment_id].status = SUCCEEDED
           /\ HasIntent(payments[refunds[n].payment_id].payment_intent_id)
           /\ paymentIntents[payments[refunds[n].payment_id].payment_intent_id].status
                = SUCCEEDED

\* two Refunds are stored for the Payment of a succeeded intent
C25_Witness ==
    /\ Len(refunds) = 2
    /\ \A n \in 1..Len(refunds) : refunds[n].payment_id = 1
    /\ Len(payments) = 1

\* the runs started for an intent
RunsOf(id) == {r \in RunIds : runs[r].intent = id}

\* C26: an intent never has more than one run; a confirm that reaches
\* confirmPaymentIntent while the intent is processing starts no run and
\* leaves the jobs as they are; no step sets a job back to pending or changes
\* the number of jobs of an intent that has jobs.
C26_OneRunPerIntent ==
    /\ [](\A id \in IntentIds : Cardinality(RunsOf(id)) <= 1)
    /\ [](\A k \in Keys, id \in IntentIds, in \in ConfirmInputs, f \in {0} \cup Stages :
            (~Live(k) /\ paymentIntents[id].status = PROCESSING) =>
                /\ ConfirmOutcome(k, id, in.data, in.forceFailure, f).runs = runs
                /\ ConfirmOutcome(k, id, in.data, in.forceFailure, f).paymentJobs
                     = paymentJobs)
    /\ [][\A id \in DOMAIN paymentJobs :
            /\ id \in DOMAIN paymentJobs'
            /\ Len(paymentJobs'[id]) = Len(paymentJobs[id])
            /\ \A n \in 1..Len(paymentJobs[id]) :
                   paymentJobs'[id][n].status = PENDING
                       => paymentJobs[id][n].status = PENDING]_vars

\* a run is outstanding, with a stage at work, while a key holds no
\* unexpired record: a second confirm reaches confirmPaymentIntent
C26_Witness ==
    \E r \in RunIds, k \in Keys :
        /\ paymentIntents[runs[r].intent].status = PROCESSING
        /\ \E s \in Stages : runs[r].pc[s] = "working"
        /\ ~Live(k)

\* C27: no intent has status canceled; an intent is requires_confirmation,
\* processing, succeeded or failed.
C27_NeverCanceled ==
    \A id \in IntentIds :
        /\ paymentIntents[id].status # CANCELED
        /\ paymentIntents[id].status
             \in {REQUIRES_CONFIRMATION, PROCESSING, SUCCEEDED, FAILED}
        /\ intentObjects[id].status # CANCELED

\* an intent has failed, more than 24 hours have passed and the sweep has
\* emptied the cache
C27_Witness ==
    /\ \E id \in IntentIds : paymentIntents[id].status = FAILED
    /\ now > 24 * 60 * 60 * 1000
    /\ \A k \in Keys : idempotencyKeys[k] = NoEntry

\* C28: a failed intent has a failure_reason: the forced-failure reason if
\* its run was forced, otherwise one that names the stage that failed; an
\* intent that is not failed has none; GET /payment_intents/:id shows
\* failure_reason exactly when the intent has one.
C28_FailureReasonNamesCause ==
    /\ \A r \in RunIds :
           paymentIntents[runs[r].intent].status = FAILED =>
               IF runs[r].forceFailure
               THEN paymentIntents[runs[r].intent].failure_reason = "forced_failure"
               ELSE \E s \in JobsIn(runs[r].intent, {FAILED}) :
                        paymentIntents[runs[r].intent].failure_reason
                            \in {JOB_TYPES[s],
                                 getProcessingJobs(runs[r].intent)[s].error_message}
    /\ \A id \in IntentIds :
           /\ paymentIntents[id].status # FAILED
                => paymentIntents[id].failure_reason = Absent
           /\ "failure_reason" \in DOMAIN GetIntentResponse(id).body
                <=> paymentIntents[id].failure_reason # Absent

\* C29: an intent never has more than one failed job; a job has an
\* error_message exactly if it is failed; a run with no designated stage
\* whose tasks are done has 5 completed jobs; the designated stage of a run
\* never changes.
C29_OneFailingStage ==
    /\ [](\A id \in IntentIds :
            /\ Cardinality(JobsIn(id, {FAILED})) <= 1
            /\ \A n \in 1..Len(getProcessingJobs(id)) :
                   getProcessingJobs(id)[n].error_message # Absent
                       <=> getProcessingJobs(id)[n].status = FAILED)
    /\ [](\A r \in RunIds :
            (runs[r].failureJobType = 0 /\ \A s \in Stages : runs[r].pc[s] = "done")
                => Cardinality(JobsIn(runs[r].intent, {COMPLETED})) = 5)
    /\ [][\A r \in RunIds :
            runs'[r].failureJobType = runs[r].failureJobType]_vars

\* an unforced run has drawn a stage to fail, that stage has failed and the
\* other four have completed, before the completion check has run
C29_Witness ==
    \E r \in RunIds :
        /\ ~runs[r].forceFailure
        /\ runs[r].failureJobType # 0
        /\ \A s \in Stages : runs[r].pc[s] = "done"
        /\ runs[r].interval
        /\ paymentIntents[runs[r].intent].status = PROCESSING

JobStep(old, new) ==
    \/ new = old
    \/ old = PENDING /\ new = PROCESSING
    \/ old = PROCESSING /\ new \in TerminalJobStatuses

\* C30: a job only moves pending -> processing -> completed or failed;
\* started_at is set exactly when the job is processing, completed or failed
\* and completed_at exactly when it is completed or failed.
C30_JobMovesForward ==
    /\ [][\A id \in DOMAIN paymentJobs :
            /\ id \in DOMAIN paymentJobs'
            /\ Len(paymentJobs'[id]) = Len(paymentJobs[id])
            /\ \A n \in 1..Len(paymentJobs[id]) :
                   JobStep(paymentJobs[id][n].status, paymentJobs'[id][n].status)]_vars
    /\ [](\A id \in DOMAIN paymentJobs :
            \A n \in 1..Len(paymentJobs[id]) :
                /\ paymentJobs[id][n].started_at
                     <=> paymentJobs[id][n].status \in {PROCESSING, COMPLETED, FAILED}
                /\ paymentJobs[id][n].completed_at
                     <=> paymentJobs[id][n].status \in {COMPLETED, FAILED})

\* jobs of one intent are processing, completed and failed at the same time
C30_Witness ==
    \E id \in IntentIds :
        /\ JobsIn(id, {PROCESSING}) # {}
        /\ JobsIn(id, {COMPLETED}) # {}
        /\ JobsIn(id, {FAILED}) # {}

\* the stages of run r whose task is at the given position
StagesAt(r, pc) == {s \in Stages : runs[r].pc[s] = pc}

\* C31 as stated: a stage that is processing can reach its terminal status
\* while any other stage is still pending, and no ordering between the stages
\* of a run holds besides all 5 being terminal before the intent is finalized.
C31_TerminalWhileOthersPending ==
    \A r \in RunIds, s \in Stages :
        (runs[r].pc[s] = "working" /\ StagesAt(r, "delay") # {})
            => ENABLED FinishStage(r, s)

\* C31, amended: no stage waits on another.  A pending stage can start
\* whatever the other stages are, and once the 5 stages have started each
\* stage that is processing can become terminal next whatever stages are
\* terminal already, so every ordering of the 5 terminal statuses has an
\* execution.  Two orderings always hold: a stage is terminal only when no
\* stage of the run is pending (start delays are below 2 s, durations at
\* least 5 s), and the intent is finalized only when all 5 are terminal.
C31_NoStageWaitsOnAnother ==
    \A r \in RunIds :
        /\ \A s \in StagesAt(r, "delay") : ENABLED StartStage(r, s)
        /\ StagesAt(r, "delay") = {}
              => \A s \in StagesAt(r, "working") : ENABLED FinishStage(r, s)
        /\ StagesAt(r, "done") # {} => StagesAt(r, "delay") = {}
        /\ \A s \in Stages :
               /\ runs[r].pc[s] = "delay"
                    <=> getProcessingJobs(runs[r].intent)[s].status = PENDING
               /\ runs[r].pc[s] = "done"
                    <=> getProcessingJobs(runs[r].intent)[s].status \in TerminalJobStatuses
        /\ paymentIntents[runs[r].intent].status \in TerminalStatuses
              => StagesAt(r, "done") = Stages

\* the stages of a run have become terminal out of their listed order: the
\* last and the second are terminal, the first still processing
C31_Witness ==
    \E r \in RunIds :
        /\ StagesAt(r, "done") = {2, 5}
        /\ StagesAt(r, "working") = {1, 3, 4}
        /\ getProcessingJobs(runs[r].intent)[1].status = PROCESSING
        /\ getProcessingJobs(runs[r].intent)[5].status \in TerminalJobStatuses

\* C32: a confirm that reaches confirmPaymentIntent on an intent that is
\* requires_confirmation is refused 422 card_error when its payment_method_id
\* is given and not allowed: the store is left as it was and no record is
\* stored.  Otherwise the intent becomes processing with payment_method_id
\* equal to the override if one is given and to its old value if none is,
\* and nothing else of the intent changes.  The payment_method_id of an
\* intent changes in no other step.
C32_OverrideAppliedOrRefused ==
    /\ [](\A k \in Keys, id \in IntentIds, in \in ConfirmInputs, f \in {0} \cup Stages :
            (~Live(k) /\ paymentIntents[id].status = REQUIRES_CONFIRMATION) =>
                LET o == ConfirmOutcome(k, id, in.data, in.forceFailure, f)
                    override == in.data.payment_method_id
                IN  IF override # Absent
                        /\ override \notin {"pm_fake_visa", "pm_fake_mastercard",
                                             "pm_fake_amex", "pm_fake_discover"}
                    THEN /\ o.response.status = 422
                         /\ o.response.body.error.type = "card_error"
                         /\ StoreKept(o)
                         /\ o.paymentIntents[id].status = REQUIRES_CONFIRMATION
                         /\ id \notin DOMAIN o.paymentJobs
                         /\ o.idempotencyKeys[k] = NoEntry
                         /\ \A j \in Keys \ {k} : o.idempotencyKeys[j] = idempotencyKeys[j]
                    ELSE /\ o.response.status = 202
                         /\ o.paymentIntents[id]
                              = [paymentIntents[id] EXCEPT
                                    !.status = PROCESSING,
                                    !.isOriginal = FALSE,
                                    !.payment_method_id =
                                        IF override # Absent THEN override ELSE @])
    /\ [][\A id \in IntentIds :
            paymentIntents'[id].payment_method_id # paymentIntents[id].payment_method_id
                => /\ paymentIntents[id].status = REQUIRES_CONFIRMATION
                   /\ paymentIntents'[id].status = PROCESSING]_vars

\* an intent created with pm_fake_visa was confirmed with the override
\* pm_fake_mastercard and has been finalized since
C32_Witness ==
    \E id \in IntentIds :
        /\ paymentIntents[id].payment_method_id = "pm_fake_mastercard"
        /\ paymentIntents[id].status \in TerminalStatuses

\* refund bodies for the order of the checks: those of RefundBodies and
\* bodies that are invalid and name no stored payment
RefundCheckBodies ==
    RefundBodies \cup {RefundBody(0, 0), RefundBody(MaxIntents + 1, 0),
                       RefundBody(MaxIntents + 1, -5)}

\* C33: a refund request that reaches createRefund without payment_id or
\* with an amount that is not positive is refused 422 with a validation
\* error (missing_payment_id, else invalid_amount) whether or not its
\* payment_id names a stored Payment; it is answered 404 only if its
\* payment_id and amount are valid and no Payment has that id; a request
\* that is not answered 201 appends no Refund and leaves the store as it was.
C33_ValidationBeforeLookup ==
    \A k \in Keys, data \in RefundCheckBodies :
        ~Live(k) =>
            LET o == CreateRefundOutcome(k, data) IN
            /\ (data.payment_id = 0 \/ data.amount <= 0) =>
                   /\ o.response.status = 422
                   /\ o.response.body.error.type = "validation_error"
                   /\ o.response.body.error.code
                        = (IF data.payment_id = 0
                           THEN "missing_payment_id" ELSE "invalid_amount")
            /\ o.response.status = 404 =>
                   /\ data.payment_id # 0
                   /\ data.amount > 0
                   /\ ~HasPayment(data.payment_id)
            /\ o.response.status # 201 =>
                   /\ o.refunds = refunds
                   /\ StoreKept(o)
                   /\ o.idempotencyKeys[k] = NoEntry

\* a Payment is stored, no Refund is, and an expired record was removed by
\* the lookup of a request while the sweep has not run
C33_Witness ==
    /\ Len(payments) = 1
    /\ Len(refunds) = 0
    /\ \E k \in Keys, j \in Keys :
           /\ idempotencyKeys[k] = NoEntry
           /\ idempotencyKeys[j] # NoEntry
           /\ ~Live(j)

\* C34: no step removes a Refund or changes one: the Refunds stored before a
\* step are stored after it, in the same places and with the same fields;
\* a stored Refund has status succeeded; a replay of a refund request while
\* its record is unexpired leaves the Refunds as they are.
C34_RefundsAppendOnly ==
    /\ [][/\ Len(refunds') >= Len(refunds)
          /\ \A n \in 1..Len(refunds) :
                 /\ refunds'[n].payment_id = refunds[n].payment_id
                 /\ refunds'[n].amount = refunds[n].amount
                 /\ refunds'[n].reason = refunds[n].reason
                 /\ refunds'[n].status = refunds[n].status
                 /\ refunds'[n] = refunds[n]]_vars
    /\ [](\A n \in 1..Len(refunds) : refunds[n].status = SUCCEEDED /\ refunds[n].id = n)
    /\ [](\A k \in Keys :
            (Live(k) /\ firstUse[k].op = "refund") =>
                CreateRefundOutcome(k, firstUse[k].body).refunds = refunds)

\* two Refunds of different amounts are stored for the same Payment and the
\* record of a refund request is unexpired
C34_Witness ==
    /\ Len(refunds) = 2
    /\ refunds[1].payment_id = refunds[2].payment_id
    /\ refunds[1].amount # refunds[2].amount
    /\ \E k \in Keys : Live(k) /\ firstUse[k].op = "refund"

\* the request is answered from the record of key k, with the status the
\* request that stored the record was answered with, and executes nothing
ServedAcross(k, o) ==
    /\ ServedFromRecord(k, o)
    /\ o.response.status = firstUse[k].response.status
    /\ o.firstUse = firstUse

\* C35: the records of all mutating operations are looked up by the key
\* alone.  While key k holds an unexpired record, a create, confirm or
\* refund request with k for another operation, or for another intent or
\* payment, than the request that stored the record is answered from that
\* record and executes nothing: a confirm of another intent leaves that
\* intent as it is, with no jobs and no run.
C35_KeysShareOneNamespace ==
    \A k \in Keys :
        Live(k) =>
            /\ \A data \in CreateBodies :
                   firstUse[k].op # "create" =>
                       /\ ServedAcross(k, CreateIntentOutcome(k, data))
                       /\ Len(CreateIntentOutcome(k, data).paymentIntents)
                            = Len(paymentIntents)
            /\ \A id \in 1..MaxPairIntents, in \in ConfirmInputs, f \in {0} \cup Stages :
                   (firstUse[k].op # "confirm" \/ firstUse[k].target # id) =>
                       LET o == ConfirmOutcome(k, id, in.data, in.forceFailure, f) IN
                       /\ ServedAcross(k, o)
                       /\ HasIntent(id) =>
                              /\ o.paymentIntents[id].status = paymentIntents[id].status
                              /\ getProcessingJobs(id) = <<>> => id \notin DOMAIN o.paymentJobs
                       /\ Len(o.runs) = Len(runs)
            /\ \A data \in RefundBodies \cup PairRefundBodies :
                   (firstUse[k].op # "refund" \/ firstUse[k].target # data.payment_id) =>
                       /\ ServedAcross(k, CreateRefundOutcome(k, data))
                       /\ CreateRefundOutcome(k, data).refunds = refunds

\* the record of a key was stored by the confirm of one intent and is
\* unexpired, while the other intent is requires_confirmation and the record
\* of the other key was stored by a refund
C35_Witness ==
    \E k \in Keys, j \in Keys, a \in IntentIds, b \in IntentIds :
        /\ Live(k) /\ firstUse[k].op = "confirm" /\ firstUse[k].target = a
        /\ b # a
        /\ paymentIntents[b].status = REQUIRES_CONFIRMATION
        /\ getProcessingJobs(b) = <<>>
        /\ Live(j) /\ firstUse[j].op = "refund"

\* the request failed: it is answered neither 201 nor 202
Failed(o) == o.response.status \notin {201, 202}

\* a failed request leaves the store as it was and key k without a record
NothingStored(k, o) ==
    /\ StoreKept(o)
    /\ o.idempotencyKeys[k] = NoEntry
    /\ \A j \in Keys \ {k} : o.idempotencyKeys[j] = idempotencyKeys[j]

\* C36: a create, confirm or refund request that reaches its handler and
\* fails (validation error, card_error, not_found, invalid_state) stores no
\* record: its key is without a record afterwards, so the next request with
\* that key is executed by its handler (a valid create is answered 201 and
\* creates an intent).  Every record in the cache holds the result of a
\* request that succeeded, and only a step that creates an intent, starts a
\* run or appends a refund writes a record.
C36_FailuresAreNotCached ==
    /\ [](\A k \in Keys :
            ~Live(k) =>
                /\ \A data \in CreateBodies :
                       LET o == CreateIntentOutcome(k, data) IN
                       IF validatePaymentIntentData(data) # <<>>
                       THEN Failed(o) /\ NothingStored(k, o)
                       ELSE /\ o.response.status = 201
                            /\ Len(o.paymentIntents) = Len(paymentIntents) + 1
                /\ \A id \in IntentIdInputs, in \in ConfirmInputs, f \in {0} \cup Stages :
                       LET o == ConfirmOutcome(k, id, in.data, in.forceFailure, f) IN
                       Failed(o) =>
                           /\ NothingStored(k, o)
                           /\ o.response.status \in {404, 422}
                /\ \A data \in RefundBodies :
                       LET o == CreateRefundOutcome(k, data) IN
                       Failed(o) =>
                           /\ NothingStored(k, o)
                           /\ o.response.status \in {404, 422})
    /\ [](\A k \in Keys :
            idempotencyKeys[k] # NoEntry =>
                /\ idempotencyKeys[k].result.status \in {201, 202}
                /\ firstUse[k].op \in {"create", "confirm", "refund"}
                /\ firstUse[k].response.status = idempotencyKeys[k].result.status)
    /\ [][\A k \in Keys :
            (idempotencyKeys'[k] # NoEntry /\ idempotencyKeys'[k] # idempotencyKeys[k]) =>
                \/ Len(paymentIntents') > Len(paymentIntents)
                \/ Len(runs') > Len(runs)
                \/ Len(refunds') > Len(refunds)]_vars

\* an intent has failed, so that a confirm of it is refused, and the lookup
\* of a request has removed the expired record of its key while the other
\* key still holds an expired record
C36_Witness ==
    /\ \E id \in IntentIds : paymentIntents[id].status = FAILED
    /\ \E k \in Keys, j \in Keys :
           /\ idempotencyKeys[k] = NoEntry
           /\ idempotencyKeys[j] # NoEntry
           /\ ~Live(j)

\* what store.getIdempotencyResult returns for key k when the cache is keys
LookupIn(keys, k) ==
    IF keys[k] = NoEntry \/ now - keys[k].timestamp > 24 * 60 * 60 * 1000
    THEN NoEntry
    ELSE keys[k]

\* C37: the sweep removes exactly the records that are older than 24 hours,
\* those a lookup treats as absent: in every state the lookup of every key
\* returns the same in the swept cache as in the cache as it is, and across
\* a step of the sweep that removes a record every create, confirm and refund
\* request is answered the same and leaves the same store.
C37_SweepIsInvisible ==
    /\ [](\A k \in Keys :
            /\ LookupIn(cleanup(idempotencyKeys), k) = LookupIn(idempotencyKeys, k)
            /\ cleanup(idempotencyKeys)[k] = LookupIn(idempotencyKeys, k))
    /\ [][(Cleanup /\ idempotencyKeys' # idempotencyKeys) =>
            /\ \A k \in KeyInputs, data \in CreateBodies :
                   /\ CreateIntentOutcome(k, data).response'
                        = CreateIntentOutcome(k, data).response
                   /\ CreateIntentOutcome(k, data).paymentIntents'
                        = CreateIntentOutcome(k, data).paymentIntents
            /\ \A k \in KeyInputs, id \in IntentIdInputs, in \in ConfirmInputs :
                   /\ ConfirmOutcome(k, id, in.data, in.forceFailure, 0).response'
                        = ConfirmOutcome(k, id, in.data, in.forceFailure, 0).response
                   /\ ConfirmOutcome(k, id, in.data, in.forceFailure, 0).paymentIntents'
                        = ConfirmOutcome(k, id, in.data, in.forceFailure, 0).paymentIntents
                   /\ ConfirmOutcome(k, id, in.data, in.forceFailure, 0).runs'
                        = ConfirmOutcome(k, id, in.data, in.forceFailure, 0).runs
            /\ \A k \in KeyInputs, data \in RefundBodies :
                   /\ CreateRefundOutcome(k, data).response'
                        = CreateRefundOutcome(k, data).response
                   /\ CreateRefundOutcome(k, data).refunds'
                        = CreateRefundOutcome(k, data).refunds]_vars

\* more than 24 hours after a create and a confirm stored their records the
\* cache is empty, while the Payment made then is stored and not refunded
C37_Witness ==
    /\ now > 24 * 60 * 60 * 1000
    /\ \A k \in Keys : idempotencyKeys[k] = NoEntry
    /\ Len(payments) = 1
    /\ Len(refunds) = 0

\* what is stored for intent id: its record, its jobs and its Payments
IntentView(id) ==
    <<paymentIntents[id], getProcessingJobs(id),
      {payments[p] : p \in PaymentsOfIntent(id)}>>

\* the Refunds stored for payment p
RefundsOf(list, p) == SelectSeq(list, LAMBDA x : x.payment_id = p)

C39_PollingTerminates ==
    /\ [](/\ Cardinality(timers) <= 1
           /\ timers = (IF pollingRef = NoTimer THEN {} ELSE {pollingRef})
           /\ \A c \in timers : c <= pollings /\ retryCount[c] < 30)
    /\ [][/\ (InFlight' < InFlight /\ retryCount' = retryCount) => timers' = {}
          /\ \A c \in PollIds :
                 (retryCount'[c] # retryCount[c] /\ retryCount'[c] >= 30)
                     => (timers' = {} /\ pollingError' # Absent)
          /\ \A c \in 1..pollings :
                 (c \notin timers) =>
                     (c \notin timers' /\ inflight'[c].intent <= inflight[c].intent)
          /\ (pollings' # pollings) =>
                 (timers' = {pollings'} /\ pollingRef' = pollings')]_vars
    /\ \A c \in PollIds : (c \in timers) ~> (c \notin timers)

\* the second call of startPolling has ended after 30 polls that found the
\* intent processing: no timer is set and the timeout error is
C39_Witness ==
    /\ pollings = 2
    /\ retryCount[2] = 30
    /\ timers = {}
    /\ pollingRef = NoTimer
    /\ pollingError = "Polling timeout"

====
